---- MODULE Spec2Model ----
(***************************************************************************)
(* Model of the arxiv-daily pipeline: ArxivAgent (binary keyword policy,   *)
(* src/arxiv_agent.py) and EnhancedArxivAgent (weighted policy,            *)
(* src/enhanced_agent.py).                                                 *)
(*                                                                         *)
(* Texts (titles, abstracts, keywords) are sequences of characters, so     *)
(* str.lower() and the `in` substring test are computed, not assumed.      *)
(* Scores are Python floats built from the literals 0.5 and 0.3; the model *)
(* keeps them exact, in tenths, as a fraction <<num, den>>.  For keyword   *)
(* lists of up to three terms the double results compare (<, =, > 0.3)     *)
(* exactly as these fractions do.                                          *)
(***************************************************************************)
EXTENDS Integers, Sequences, FiniteSets, TLC

VARIABLES
    agent,            \* "basic" (ArxivAgent) or "enhanced" (EnhancedArxivAgent), run.py:92-97
    feeds,            \* what the RSS feed of each configured category holds, entry by entry
    keywords,         \* config['arxiv']['keywords']
    max_papers,       \* config['arxiv']['max_papers_per_day']
    pc,               \* position of the Run
    ci,               \* index of the category the for-loop of observing is at
    category_papers,  \* local of observing: the papers fetched for the current category
    filtered_papers,  \* local of observing: the papers the filter returned for it
    papers,           \* local of observing: the accumulated list, then the returned list
    unique,           \* local of ArxivAgent.observing: the deduplicated list
    error,            \* the exception in flight, "" if none
    sc,               \* a scoring session: one paper scored against a keyword list
    provider,         \* config['ai']['provider'] of the enhanced agent
    dry_run,          \* args.dry_run of run.py
    feed_fail,        \* the category whose feed cannot be fetched, 0 if every feed answers
    net,              \* what the PDF server and the cache directory do, per clean identifier
    docs,             \* the PDF document of each clean identifier, by name
    cache0,           \* the *.pdf files pdf_dir held before the Run
    idx,              \* index of the paper the for-loop of acting is at
    pdfs,             \* the *.pdf files in pdf_dir, by clean identifier
    downloaded,       \* the identifiers whose PDF this Run has written
    figures,          \* the image files in figure_dir, each with the page it came from
    requests,         \* the identifiers requested from the PDF server, in order
    writes,           \* the identifiers whose cache file was written, in order
    prompts,          \* the content submitted to the AI backend, call by call
    analysis_results, \* local of EnhancedArxivAgent.acting, saved as the metadata
    replies,          \* what the AI backend answered to acting, call by call
    report,           \* the report acting has generated, None before
    files,            \* the output files written: "report", "metadata"
    cleanup_done,     \* the finally block of ArxivAgent.run has run its cleanup
    cleanup_failed,   \* os.remove raised during that cleanup
    exit_status       \* what main() of run.py returned, None while it runs

vars == <<agent, feeds, keywords, max_papers, pc, ci, category_papers,
          filtered_papers, papers, unique, error, sc, provider, dry_run,
          feed_fail, net, docs, cache0, idx, pdfs, downloaded, figures,
          requests, writes, prompts, analysis_results, replies, report, files,
          cleanup_done, cleanup_failed, exit_status>>

\* What the Run's configuration and environment are: never assigned by a step.
envVars == <<agent, feeds, max_papers, provider, dry_run, feed_fail, net, docs,
            cache0>>

\* What the steps after observing assign.
actVars == <<idx, pdfs, downloaded, figures, requests, writes, prompts,
            analysis_results, replies, report, files, cleanup_done,
            cleanup_failed, exit_status>>

pipeVars == <<envVars, pc, ci, category_papers, filtered_papers, papers,
              unique, error, actVars>>

----------------------------------------------------------------------------
(* Bounds of the model *)

NumFeeds == 2
MaxTotal == 3
MaxKeywords == 2
MaxCap == 3

----------------------------------------------------------------------------
(* Characters and strings *)

LowerChar(c) == CASE c = "G" -> "g" [] c = "T" -> "t" [] OTHER -> c

lower(s) == [i \in 1..Len(s) |-> LowerChar(s[i])]

\* Python's `sub in s` on strings
Contains(sub, s) ==
    \E i \in 0..(Len(s) - Len(sub)) : SubSeq(s, i + 1, i + Len(sub)) = sub

Min(a, b) == IF a <= b THEN a ELSE b

SeqsUpTo(S, n) == UNION {[1..k -> S] : k \in 0..n}

----------------------------------------------------------------------------
(* Papers *)

None == <<>>

Some(v) == <<v>>

\* A Paper as _parse_paper_entry builds it: every optional field is None.
\* full_text and the two paths are fields of arxiv_agent.Paper,
\* relevance_score and key_insights of enhanced_agent.Paper.
Paper(id, title, abstract, url) ==
    [arxiv_id |-> id, title |-> title, abstract |-> abstract, url |-> url,
     relevance_score |-> None, full_text |-> None, main_figure_path |-> None,
     main_table_path |-> None, ai_analysis |-> None, key_insights |-> None]

\* The papers the feeds of the pipeline runs are drawn from.  PaperA and
\* PaperB are the same paper (identifier X123) listed by two feeds.
PaperA == Paper("X123", <<"T">>, <<"x">>, "a")
PaperB == Paper("X123", <<"T">>, <<"x">>, "b")
PaperC == Paper("Y456", <<"x">>, <<"G">>, "c")
PaperD == Paper("Z789", <<"g", " ", "t">>, <<"g">>, "d")

Catalogue == {PaperA, PaperB, PaperC, PaperD}

\* The interest terms a configuration may list ("graph", "Transformer").
Terms == {<<"g">>, <<"T">>}

KeywordLists == SeqsUpTo(Terms, MaxKeywords)

----------------------------------------------------------------------------
(* ArxivAgent: binary keyword policy *)

\* text_to_check = f"{paper.title} {paper.abstract}".lower()
text_to_check(paper) == lower(paper.title \o <<" ">> \o paper.abstract)

\* The inner for-loop over the keywords, from keyword k on: what it appends
\* to filtered_papers for this paper (the paper, once, at the first keyword
\* found; then break).
\* The inner loop without its break: the paper is appended once per keyword found.
RECURSIVE keyword_loop_no_break(_, _, _)
keyword_loop_no_break(paper, kws, k) ==
    IF k > Len(kws) THEN <<>>
    ELSE (IF Contains(lower(kws[k]), text_to_check(paper)) THEN <<paper>> ELSE <<>>)
         \o keyword_loop_no_break(paper, kws, k + 1)

RECURSIVE keyword_loop(_, _, _)
keyword_loop(paper, kws, k) ==
    IF k > Len(kws) THEN <<>>
    ELSE IF Contains(lower(kws[k]), text_to_check(paper)) THEN <<paper>>
    ELSE keyword_loop(paper, kws, k + 1)

RECURSIVE filter_loop(_, _, _)
filter_loop(ps, kws, i) ==
    IF i > Len(ps) THEN <<>>
    ELSE keyword_loop(ps[i], kws, 1) \o filter_loop(ps, kws, i + 1)

filter_papers_by_keywords(ps, kws) == filter_loop(ps, kws, 1)

\* The deduplication loop of observing: seen is the set of identifiers met
\* so far, acc the list `unique` built so far.
RECURSIVE unique_loop(_, _, _, _)
unique_loop(ps, i, seen, acc) ==
    IF i > Len(ps) THEN acc
    ELSE IF ps[i].arxiv_id \notin seen
         THEN unique_loop(ps, i + 1, seen \cup {ps[i].arxiv_id}, Append(acc, ps[i]))
         ELSE unique_loop(ps, i + 1, seen, acc)

\* A deduplication that keeps the last paper of each identifier.
deduplicate_keep_last(ps) ==
    SelectSeq(ps, LAMBDA p :
        \E i \in 1..Len(ps) :
            /\ ps[i] = p
            /\ \A j \in (i + 1)..Len(ps) : ps[j].arxiv_id # p.arxiv_id)

deduplicate(ps) == unique_loop(ps, 1, {}, <<>>)

----------------------------------------------------------------------------
(* EnhancedArxivAgent: weighted policy *)

\* Weights and threshold, in tenths.
TitleWeight == 5
AbstractWeight == 3
Threshold == 3

ZeroDivisionError == <<"ZeroDivisionError">>

\* The two weights exchanged.
keyword_score_swapped(paper, kw) ==
    (IF Contains(lower(kw), lower(paper.title)) THEN AbstractWeight ELSE 0)
    + (IF Contains(lower(kw), lower(paper.abstract)) THEN TitleWeight ELSE 0)

\* One pass of the scoring loop for keyword kw: what it adds to score.
keyword_score(paper, kw) ==
    (IF Contains(lower(kw), lower(paper.title)) THEN TitleWeight ELSE 0)
    + (IF Contains(lower(kw), lower(paper.abstract)) THEN AbstractWeight ELSE 0)

RECURSIVE score_loop(_, _, _)
score_loop(paper, kws, k) ==
    IF k > Len(kws) THEN 0
    ELSE keyword_score(paper, kws[k]) + score_loop(paper, kws, k + 1)

\* The score without the clamp min(., 1.0).
calculate_relevance_score_unclamped(paper, kws) ==
    LET score == score_loop(paper, kws, 1)
        max_possible_score == Len(kws) * TitleWeight
    IN  IF max_possible_score = 0 THEN ZeroDivisionError
        ELSE <<score, max_possible_score>>

\* min(score / max_possible_score, 1.0) as the fraction <<num, den>>, or the
\* exception the division raises when the keyword list is empty (0.0 / 0.0).
calculate_relevance_score(paper, kws) ==
    LET score == score_loop(paper, kws, 1)
        max_possible_score == Len(kws) * TitleWeight
    IN  IF max_possible_score = 0 THEN ZeroDivisionError
        ELSE <<Min(score, max_possible_score), max_possible_score>>

\* Comparisons of scores <<num, den>>, den > 0
ScoreLess(a, b) == a[1] * b[2] < b[1] * a[2]
ScoreEq(a, b) == a[1] * b[2] = b[1] * a[2]
ScoreLeq(a, b) == a[1] * b[2] <= b[1] * a[2]
at_or_above_threshold(s) == s[1] * 10 >= Threshold * s[2]

\* relevance_score > 0.3
AboveThreshold(s) == s[1] * 10 > Threshold * s[2]

\* _enhanced_filter_papers from paper i on, acc the filtered_papers so far:
\* what it returns (ret), or the exception of the first score that raises
\* (exc).  A passing paper has its relevance_score set.
RECURSIVE enhanced_filter_loop(_, _, _, _)
enhanced_filter_loop(ps, kws, i, acc) ==
    IF i > Len(ps) THEN [exc |-> "", ret |-> acc]
    ELSE LET relevance_score == calculate_relevance_score(ps[i], kws)
         IN  IF relevance_score = ZeroDivisionError
             THEN [exc |-> "ZeroDivisionError", ret |-> <<>>]
             ELSE IF AboveThreshold(relevance_score)
                  THEN enhanced_filter_loop(ps, kws, i + 1,
                         Append(acc, [ps[i] EXCEPT !.relevance_score = relevance_score]))
                  ELSE enhanced_filter_loop(ps, kws, i + 1, acc)

enhanced_filter_papers(ps, kws) == enhanced_filter_loop(ps, kws, 1, <<>>)

\* The fetched Paper objects after _enhanced_filter_papers returned: the
\* passing ones were given their score in place.
scored_in_place(ps, kws) ==
    [i \in 1..Len(ps) |->
        LET relevance_score == calculate_relevance_score(ps[i], kws)
        IN  IF AboveThreshold(relevance_score)
            THEN [ps[i] EXCEPT !.relevance_score = relevance_score]
            ELSE ps[i]]

\* key=lambda x: x.relevance_score or 0
sort_key(p) == IF p.relevance_score = None THEN <<0, 1>> ELSE p.relevance_score

\* list.sort(key, reverse=True): stable, descending.  x goes after every
\* element whose key is not smaller than its own.
\* An insertion that puts x before the elements of equal key.
RECURSIVE insert_sorted_before_equal(_, _)
insert_sorted_before_equal(s, x) ==
    IF s = <<>> THEN <<x>>
    ELSE IF ScoreLeq(sort_key(Head(s)), sort_key(x)) THEN <<x>> \o s
    ELSE <<Head(s)>> \o insert_sorted_before_equal(Tail(s), x)

RECURSIVE insert_sorted(_, _)
insert_sorted(s, x) ==
    IF s = <<>> THEN <<x>>
    ELSE IF ScoreLess(sort_key(Head(s)), sort_key(x)) THEN <<x>> \o s
    ELSE <<Head(s)>> \o insert_sorted(Tail(s), x)

RECURSIVE sort_loop(_, _, _)
sort_loop(ps, i, acc) ==
    IF i > Len(ps) THEN acc ELSE sort_loop(ps, i + 1, insert_sorted(acc, ps[i]))

sort_by_relevance(ps) == sort_loop(ps, 1, <<>>)

\* papers[:max_papers]
Take(ps, n) == SubSeq(ps, 1, Min(n, Len(ps)))

----------------------------------------------------------------------------
(* Enrichment of ArxivAgent: _download_pdf and _extract_full_text_and_figures *)

\* The identifiers of the model, character by character.
KnownIds == {"X123", "Y456", "Z789", "Z789v1", "Z789v2", "S"}

IdChars(id) ==
    CASE id = "X123" -> <<"X", "1", "2", "3">>
      [] id = "Y456" -> <<"Y", "4", "5", "6">>
      [] id = "Z789" -> <<"Z", "7", "8", "9">>
      [] id = "Z789v1" -> <<"Z", "7", "8", "9", "v", "1">>
      [] id = "Z789v2" -> <<"Z", "7", "8", "9", "v", "2">>
      [] OTHER -> <<"S">>

IdOf(chars) == CHOOSE id \in KnownIds : IdChars(id) = chars

Digits == {"0", "1", "2", "3", "4", "5", "6", "7", "8", "9"}

RECURSIVE TrailingDigits(_)
TrailingDigits(s) ==
    IF s # <<>> /\ s[Len(s)] \in Digits
    THEN 1 + TrailingDigits(SubSeq(s, 1, Len(s) - 1))
    ELSE 0

\* re.sub(r'v\d+$', '', arxiv_id): a final "v" and digits are dropped.
strip_version(s) ==
    LET k == TrailingDigits(s)
    IN  IF k >= 1 /\ Len(s) > k /\ s[Len(s) - k] = "v"
        THEN SubSeq(s, 1, Len(s) - k - 1)
        ELSE s

\* The clean_id of _download_pdf; no identifier of the model carries the
\* "arxiv.org:" prefix the first pattern looks for.
clean_id(arxiv_id) == IdOf(strip_version(IdChars(arxiv_id)))

\* What requests.get(pdf_url, timeout=30) and the write to pdf_dir can do:
\* answer 200 and be stored, raise (connection error, timeout), answer
\* another status, or answer 200 while the cache file cannot be opened.
DownloadOutcomes == {"ok", "exception", "non200", "unwritable"}

\* The directories as enrichment sees them: the *.pdf files of pdf_dir, the
\* image files of figure_dir, and the log of what was requested from the
\* network and what was written to pdf_dir.
Disk(ps, figs, reqs, wrs) ==
    [pdfs |-> ps, figures |-> figs, requests |-> reqs, writes |-> wrs]

\* _download_pdf(arxiv_id): the returned path (None on failure) and the
\* disk afterwards.
download_pdf_ignoring_status(arxiv_id, disk) ==
    LET id == clean_id(arxiv_id)
        asked == [disk EXCEPT !.requests = Append(@, id)]
    IN  IF id \in disk.pdfs
        THEN [ret |-> Some(id), disk |-> disk]
        ELSE IF net[id] \in {"ok", "non200"}
             THEN [ret |-> Some(id),
                   disk |-> [asked EXCEPT !.pdfs = @ \cup {id},
                                          !.writes = Append(@, id)]]
             ELSE [ret |-> None, disk |-> asked]

download_pdf_always_fetching(arxiv_id, disk) ==
    LET id == clean_id(arxiv_id)
        asked == [disk EXCEPT !.requests = Append(@, id)]
    IN  IF net[id] = "ok"
        THEN [ret |-> Some(id),
              disk |-> [asked EXCEPT !.pdfs = @ \cup {id},
                                     !.writes = Append(@, id)]]
        ELSE [ret |-> IF id \in disk.pdfs THEN Some(id) ELSE None, disk |-> asked]

download_pdf(arxiv_id, disk) ==
    LET id == clean_id(arxiv_id)
        asked == [disk EXCEPT !.requests = Append(@, id)]
    IN  IF id \in disk.pdfs
        THEN [ret |-> Some(id), disk |-> disk]
        ELSE IF net[id] = "ok"
             THEN [ret |-> Some(id),
                   disk |-> [asked EXCEPT !.pdfs = @ \cup {id},
                                          !.writes = Append(@, id)]]
             ELSE [ret |-> None, disk |-> asked]

\* A page of a PDF: the words of its text and whether it has an embedded
\* image.
Page(text, img) == [text |-> text, img |-> img]

\* A PDF: its pages and the step of the extraction that raises on it, if any
\* ("open": fitz.open, "text": get_text, "figure" / "table": extracting or
\* writing the image).
Document(pages, fails) == [pages |-> pages, fails |-> fails]

\* str.lower() on the words of the model
LowerWord(w) ==
    CASE w = "Architecture" -> "architecture"
      [] w = "Table" -> "table"
      [] w = "Model" -> "model"
      [] OTHER -> w

lower_words(text) == [i \in 1..Len(text) |-> LowerWord(text[i])]

Has(w, text) == \E i \in 1..Len(text) : text[i] = w

\* The heuristic for the architecture figure, on the lowered text of a page.
figure_heuristic(text) ==
    \/ Has("architecture", text)
    \/ Has("framework", text)
    \/ (Has("model", text) /\ (Has("figure", text) \/ Has("fig.", text)))

\* The heuristic for the results table.
table_heuristic(text) ==
    /\ (Has("result", text) \/ Has("performance", text) \/ Has("comparison", text))
    /\ Has("table", text)

TextPages == 10
ScanPages == 8

\* The PDFs of the model. The plain one has a page that reads like the
\* architecture figure but has no image, then a figure page with an image,
\* then a page with an image that reads like both; the scanned one has an
\* image and no text; the long one has its only image past the pages that
\* are scanned, and more pages than are read.
PlainPages ==
    <<Page(<<"Architecture", "result", "Table">>, FALSE),
      Page(<<"Model", "fig.", "result">>, TRUE),
      Page(<<"framework", "comparison", "table">>, TRUE)>>

ScannedPages == <<Page(<<>>, TRUE)>>

LongPages ==
    [i \in 1..(TextPages + 1) |->
        IF i = ScanPages + 1
        THEN Page(<<"framework", "comparison", "table">>, TRUE)
        ELSE Page(<<"Model">>, TRUE)]

\* The PDFs by name: the plain one, the plain one with a step that raises
\* on it, the scanned one and the long one.
DocumentNames == {"plain", "open", "text", "figure", "table", "scanned", "long"}

TheDocument(name) ==
    CASE name = "plain" -> Document(PlainPages, "none")
      [] name = "scanned" -> Document(ScannedPages, "none")
      [] name = "long" -> Document(LongPages, "none")
      [] OTHER -> Document(PlainPages, name)

FigurePath(paper) == <<"main_fig", paper.arxiv_id>>
TablePath(paper) == <<"main_table", paper.arxiv_id>>

\* open(path, "wb") and write: the file holds the image of the given page.
WriteFile(figs, path, page_num) ==
    {f \in figs : f.path # path} \cup {[path |-> path, page |-> page_num]}

\* The figure step of one pass of the scan loop.
figure_step(paper, doc, page_num, st) ==
    IF /\ st.main_figure_path = None
       /\ figure_heuristic(lower_words(doc.pages[page_num].text))
       /\ doc.pages[page_num].img
    THEN IF doc.fails = "figure"
         THEN [st EXCEPT !.raised = TRUE]
         ELSE [st EXCEPT !.main_figure_path = Some(FigurePath(paper)),
                         !.figures = WriteFile(@, FigurePath(paper), page_num)]
    ELSE st

\* The table step of one pass of the scan loop.
table_step(paper, doc, page_num, st) ==
    IF /\ st.main_table_path = None
       /\ table_heuristic(lower_words(doc.pages[page_num].text))
       /\ doc.pages[page_num].img
    THEN IF doc.fails = "table"
         THEN [st EXCEPT !.raised = TRUE]
         ELSE [st EXCEPT !.main_table_path = Some(TablePath(paper)),
                         !.figures = WriteFile(@, TablePath(paper), page_num)]
    ELSE st

\* for page_num in range(min(8, doc.page_count)), from page_num on: the
\* locals main_figure_path and main_table_path, the files of figure_dir, and
\* whether a step raised.
RECURSIVE scan_loop(_, _, _, _)
scan_loop(paper, doc, page_num, st) ==
    IF page_num > Min(ScanPages, Len(doc.pages)) THEN st
    ELSE LET f == figure_step(paper, doc, page_num, st)
         IN  IF f.raised THEN f
             ELSE LET t == table_step(paper, doc, page_num, f)
                  IN  IF t.raised THEN t
                      ELSE scan_loop(paper, doc, page_num + 1, t)

\* paper.main_figure_path / main_table_path are assigned after the loop, so
\* not at all when a step of the loop raised.
assign_paths(paper, st) ==
    IF st.raised THEN paper
    ELSE [paper EXCEPT !.main_figure_path = st.main_figure_path,
                       !.main_table_path = st.main_table_path]

\* for page_num in range(min(10, doc.page_count)):
\*     full_text += doc[page_num].get_text(), the first k passes of it
RECURSIVE text_loop(_, _)
text_loop(doc, k) ==
    IF k = 0 THEN <<>> ELSE text_loop(doc, k - 1) \o doc.pages[k].text

\* _extract_full_text_and_figures(paper): returns without touching the paper
\* when there is no PDF or it cannot be opened or read; otherwise sets the
\* text of the first pages and then scans for the figure and the table.
extract_full_text_and_figures(paper, disk) ==
    LET d == download_pdf(paper.arxiv_id, disk)
        doc == TheDocument(docs[clean_id(paper.arxiv_id)])
    IN  IF d.ret = None \/ d.ret[1] \notin d.disk.pdfs
        THEN [paper |-> paper, disk |-> d.disk]
        ELSE IF doc.fails \in {"open", "text"}
        THEN [paper |-> paper, disk |-> d.disk]
        ELSE LET full_text == text_loop(doc, Min(TextPages, Len(doc.pages)))
                 st == scan_loop(paper, doc, 1,
                                 [main_figure_path |-> None, main_table_path |-> None,
                                  figures |-> d.disk.figures, raised |-> FALSE])
             IN  [paper |-> assign_paths([paper EXCEPT !.full_text = Some(full_text)], st),
                  disk |-> [d.disk EXCEPT !.figures = st.figures]]

\* for paper in papers: self._extract_full_text_and_figures(paper),
\* the first k passes of it
RECURSIVE extract_loop(_, _, _)
extract_loop(ps, k, disk) ==
    IF k = 0 THEN [papers |-> <<>>, disk |-> disk]
    ELSE LET before == extract_loop(ps, k - 1, disk)
             e == extract_full_text_and_figures(ps[k], before.disk)
         IN  [papers |-> Append(before.papers, e.paper), disk |-> e.disk]

----------------------------------------------------------------------------
(* The Run: observing *)

NothingFiltered == [exc |-> "", ret |-> <<>>]

IdleScorer ==
    [pc |-> "idle", paper |-> PaperA, base |-> None, term |-> <<>>, ext |-> None,
     filtered |-> NothingFiltered]

\* The feeds of a Run: up to MaxTotal catalogue papers in all, listed by the
\* NumFeeds configured categories in any split.
FeedSplit(flat, feedOf) ==
    [c \in 1..NumFeeds |->
        SubSeq(flat,
               1 + Cardinality({i \in 1..Len(flat) : feedOf[i] < c}),
               Cardinality({i \in 1..Len(flat) : feedOf[i] <= c}))]

AllIds == {clean_id(p.arxiv_id) : p \in Catalogue}

\* A machine without network: every requests.get raises.
OfflineNet == [id \in AllIds |-> "exception"]

\* Every PDF is the plain one.
PlainDocs == [id \in AllIds |-> "plain"]

\* The state run() starts from: nothing fetched, analysed or written yet.
Start ==
    /\ pc = "loop"
    /\ ci = 1
    /\ category_papers = <<>>
    /\ filtered_papers = <<>>
    /\ papers = <<>>
    /\ unique = <<>>
    /\ error = ""
    /\ sc = IdleScorer
    /\ idx = 1
    /\ pdfs = cache0
    /\ downloaded = {}
    /\ figures = {}
    /\ requests = <<>>
    /\ writes = <<>>
    /\ prompts = <<>>
    /\ analysis_results = None
    /\ replies = <<>>
    /\ report = None
    /\ files = {}
    /\ cleanup_done = FALSE
    /\ cleanup_failed = FALSE
    /\ exit_status = None

Init ==
    /\ agent \in {"basic", "enhanced"}
    /\ \E flat \in SeqsUpTo(Catalogue, MaxTotal) :
         \E feedOf \in [1..Len(flat) -> 1..NumFeeds] :
            /\ \A i, j \in 1..Len(flat) : i < j => feedOf[i] <= feedOf[j]
            /\ feeds = FeedSplit(flat, feedOf)
    /\ keywords \in KeywordLists
    /\ max_papers \in 1..MaxCap
    /\ provider = "openai"
    /\ dry_run = FALSE
    /\ feed_fail = 0
    /\ net = OfflineNet
    /\ docs = PlainDocs
    /\ cache0 = {}
    /\ Start

\* _parse_paper_entry(entry): the Paper built from the entry's attributes,
\* None when reading a required attribute raises.
parse_paper_entry_lenient(entry) ==
    Some(Paper(IF "arxiv_id" \in DOMAIN entry THEN entry.arxiv_id ELSE "",
               IF "title" \in DOMAIN entry THEN entry.title ELSE <<>>,
               IF "abstract" \in DOMAIN entry THEN entry.abstract ELSE <<>>,
               IF "url" \in DOMAIN entry THEN entry.url ELSE ""))

parse_paper_entry(entry) ==
    IF {"arxiv_id", "title", "abstract", "url"} \subseteq DOMAIN entry
    THEN Some(Paper(entry.arxiv_id, entry.title, entry.abstract, entry.url))
    ELSE None

\* for entry in feed.entries: paper = parse(entry); if paper: papers.append(paper)
RECURSIVE entry_loop(_, _, _)
entry_loop(entries, i, acc) ==
    IF i > Len(entries) THEN acc
    ELSE LET paper == parse_paper_entry(entries[i])
         IN  entry_loop(entries, i + 1,
                        IF paper # None THEN Append(acc, paper[1]) ELSE acc)

\* ArxivAgent._fetch_papers_from_category: the parsed entries of the feed,
\* [] when fetching it raises.
fetch_papers_from_category(c) ==
    IF c = feed_fail THEN <<>> ELSE entry_loop(feeds[c], 1, <<>>)

\* EnhancedArxivAgent.observing calls self._fetch_papers_from_category, which
\* the class does not define in the sources at hand; as the Source Adapter
\* it returns the well-formed items of the named feed, none when the feed
\* fails.
enhanced_fetch_papers_from_category(c) ==
    IF c = feed_fail THEN <<>> ELSE entry_loop(feeds[c], 1, <<>>)

\* The tail of one pass of the for-loop, shared by both agents:
\* papers.extend(filtered); if len(papers) >= max_papers: truncate, break.
ExtendAndCap(filtered) ==
    LET extended == papers \o filtered
    IN  IF Len(extended) >= max_papers
        THEN /\ papers' = Take(extended, max_papers)
             /\ pc' = "after_loop"
             /\ ci' = ci
        ELSE /\ papers' = extended
             /\ ci' = ci + 1
             /\ pc' = IF ci + 1 > NumFeeds THEN "after_loop" ELSE "loop"

\* ArxivAgent.observing, one pass of `for category in categories`
ArxivObservingCategory ==
    /\ agent = "basic"
    /\ pc = "loop"
    /\ category_papers' = fetch_papers_from_category(ci)
    /\ filtered_papers' = filter_papers_by_keywords(category_papers', keywords)
    /\ ExtendAndCap(filtered_papers')
    /\ UNCHANGED <<envVars, keywords, unique, error, sc, actVars>>

\* ArxivAgent.observing, the deduplication loop after the for-loop
ArxivObservingDedup ==
    /\ agent = "basic"
    /\ pc = "after_loop"
    /\ unique' = deduplicate(papers)
    /\ pc' = "deduplicated"
    /\ UNCHANGED <<envVars, keywords, ci, category_papers, filtered_papers,
                   papers, error, sc, actVars>>

\* pdf_dir and figure_dir as the enrichment loop finds them
CurrentDisk == Disk(pdfs, figures, requests, writes)

\* ... and as it leaves them
Enriched(disk) ==
    /\ pdfs' = disk.pdfs
    /\ downloaded' = downloaded \cup (disk.pdfs \ pdfs)
    /\ figures' = disk.figures
    /\ requests' = disk.requests
    /\ writes' = disk.writes

\* ArxivAgent.observing: papers = unique, every paper is enriched in place,
\* and the list is returned
ArxivObservingReturn ==
    /\ agent = "basic"
    /\ pc = "deduplicated"
    /\ LET e == extract_loop(unique, Len(unique), CurrentDisk)
       IN  /\ papers' = e.papers
           /\ unique' = e.papers
           /\ Enriched(e.disk)
    /\ pc' = "observed"
    /\ UNCHANGED <<envVars, keywords, ci, category_papers, filtered_papers,
                   error, sc, idx, replies, prompts, analysis_results,
                   report, files, cleanup_done, cleanup_failed, exit_status>>

\* EnhancedArxivAgent.observing, one pass of `for category in categories`
EnhancedObservingCategory ==
    /\ agent = "enhanced"
    /\ pc = "loop"
    /\ LET fetched == enhanced_fetch_papers_from_category(ci)
           r == enhanced_filter_papers(fetched, keywords)
       IN  IF r.exc # ""
           THEN /\ error' = r.exc
                /\ pc' = "raised"
                /\ category_papers' = fetched
                /\ UNCHANGED <<filtered_papers, papers, ci>>
           ELSE /\ category_papers' = scored_in_place(fetched, keywords)
                /\ filtered_papers' = r.ret
                /\ ExtendAndCap(r.ret)
                /\ error' = error
    /\ UNCHANGED <<envVars, keywords, unique, sc, actVars>>

\* EnhancedArxivAgent.observing: papers.sort(...), and the list is returned
EnhancedObservingSort ==
    /\ agent = "enhanced"
    /\ pc = "after_loop"
    /\ papers' = sort_by_relevance(papers)
    /\ pc' = "observed"
    /\ UNCHANGED <<envVars, keywords, ci, category_papers, filtered_papers,
                   unique, error, sc, actVars>>

Next ==
    \/ ArxivObservingCategory
    \/ ArxivObservingDedup
    \/ ArxivObservingReturn
    \/ EnhancedObservingCategory
    \/ EnhancedObservingSort

Spec == Init /\ [][Next]_vars

----------------------------------------------------------------------------
(* Analysis: what the AI backend answers and what the agents make of it *)

InsightCap == 5

\* A sentence of a backend's free text counts as an insight when it holds one
\* of the marker words and is longer than 10 characters.
HasMarker(sentence) == sentence \in {"marker, long", "marker"}
IsLong(sentence) == sentence \in {"marker, long", "plain, long"}

TextFew == <<"marker, long", "plain, long", "marker", "marker, long">>
TextMany == [i \in 1..(InsightCap + 2) |-> "marker, long"]

\* An answer of the backend: the call raises, or the content is a JSON record
\* with the fields asked for, JSON of another shape (a list, a string, a
\* number), or free text.
Reply(kind, analysis, insights) ==
    [kind |-> kind, analysis |-> analysis, insights |-> insights]

RaiseReply == Reply("raise", <<>>, <<>>)
TextReplies == {Reply("text", TextFew, <<>>), Reply("text", TextMany, <<>>)}
JsonReplies ==
    {Reply("json_record", <<"summary">>, <<"insight 1", "insight 2", "insight 3">>),
     Reply("json_record", <<"summary">>, [i \in 1..(InsightCap + 1) |-> "insight"]),
     Reply("json_other", <<>>, <<>>)}

Replies(a, prov) ==
    IF a = "enhanced" /\ prov = "openai"
    THEN {RaiseReply} \cup TextReplies \cup JsonReplies
    ELSE {RaiseReply} \cup TextReplies

Placeholder == <<"AI analysis failed">>

\* content_to_analyze = paper.full_text if paper.full_text else paper.abstract
content_to_analyze_unchecked(paper) ==
    IF paper.full_text # None THEN paper.full_text[1] ELSE paper.abstract

content_to_analyze(paper) ==
    IF paper.full_text # None /\ paper.full_text[1] # <<>>
    THEN paper.full_text[1]
    ELSE paper.abstract

\* What the prompts of _openai_analysis, _anthropic_analysis and
\* _custom_analysis carry of the paper: its abstract.
enhanced_prompt_content(paper) == paper.abstract

\* ArxivAgent._analyze_paper_with_ai
analyze_paper_with_ai_raising(paper, reply) ==
    IF reply.kind = "raise" THEN None ELSE Some(reply.analysis)

analyze_paper_with_ai(paper, reply) ==
    IF reply.kind = "raise" THEN Some(Placeholder) ELSE Some(reply.analysis)

\* EnhancedArxivAgent._extract_insights_from_text
RECURSIVE insight_loop(_, _, _)
insight_loop(sentences, i, insights) ==
    IF i > Len(sentences) THEN insights
    ELSE IF HasMarker(sentences[i]) /\ IsLong(sentences[i])
         THEN IF Len(insights) + 1 >= InsightCap
              THEN Append(insights, sentences[i])
              ELSE insight_loop(sentences, i + 1, Append(insights, sentences[i]))
         ELSE insight_loop(sentences, i + 1, insights)

extract_insights_from_text(text) ==
    Take(insight_loop(text, 1, <<>>), InsightCap)

\* What an analysis method returns: a dict, or whatever else json.loads made.
Dict(analysis, insights) ==
    [kind |-> "dict", analysis |-> analysis, insights |-> insights]

NotADict == [kind |-> "other", analysis |-> <<>>, insights |-> <<>>]

\* EnhancedArxivAgent._openai_analysis, past the call
openai_analysis(paper, reply) ==
    CASE reply.kind = "json_record" -> Dict(reply.analysis, reply.insights)
      [] reply.kind = "json_other" -> NotADict
      [] OTHER -> Dict(reply.analysis, extract_insights_from_text(reply.analysis))

\* EnhancedArxivAgent._anthropic_analysis, past the call
anthropic_analysis(paper, reply) ==
    Dict(reply.analysis, extract_insights_from_text(reply.analysis))

\* EnhancedArxivAgent._custom_analysis, past the call
custom_analysis(paper, reply) ==
    Dict(reply.analysis, extract_insights_from_text(reply.analysis))

\* EnhancedArxivAgent._enhanced_ai_analysis
enhanced_ai_analysis(paper, reply) ==
    IF reply.kind = "raise" THEN Dict(Placeholder, <<>>)
    ELSE CASE provider = "openai" -> openai_analysis(paper, reply)
           [] provider = "anthropic" -> anthropic_analysis(paper, reply)
           [] OTHER -> custom_analysis(paper, reply)

\* for i, paper in enumerate(papers, 1): one section per paper
report_sections_from_zero(ps) ==
    [i \in 1..Len(ps) |->
        [number |-> i - 1, arxiv_id |-> ps[i].arxiv_id,
         ai_analysis |-> ps[i].ai_analysis, key_insights |-> ps[i].key_insights]]

report_sections(ps) ==
    [i \in 1..Len(ps) |->
        [number |-> i, arxiv_id |-> ps[i].arxiv_id,
         ai_analysis |-> ps[i].ai_analysis, key_insights |-> ps[i].key_insights]]

\* ArxivAgent._generate_markdown_report: the overview with the number of
\* papers, then the sections.
generate_markdown_report(ps) ==
    [total_papers |-> Len(ps), sections |-> report_sections(ps)]

\* EnhancedArxivAgent._generate_enhanced_report: the overview, the sections,
\* the summary with the same count, and the three papers of highest score
\* taken from a sorted copy of the list.
generate_enhanced_report(ps) ==
    [total_papers |-> Len(ps), sections |-> report_sections(ps),
     top_papers |-> SubSeq(sort_by_relevance(ps), 1, Min(3, Len(ps)))]

\* Paper.to_dict() of the enhanced agent: asdict over its fields.
to_dict(paper) ==
    [title |-> paper.title, abstract |-> paper.abstract,
     arxiv_id |-> paper.arxiv_id, url |-> paper.url,
     ai_analysis |-> paper.ai_analysis,
     relevance_score |-> paper.relevance_score,
     key_insights |-> paper.key_insights]

\* The analysis_results dict as acting creates it.
NewAnalysisResults(ps) == [total_papers |-> Len(ps), papers_analyzed |-> <<>>]

\* analysis_results["papers_analyzed"].append(paper.to_dict())
append_analyzed(results, paper) ==
    [results EXCEPT !.papers_analyzed = Append(@, to_dict(paper))]

----------------------------------------------------------------------------
(* The Run: run() of either agent under main() of run.py *)

\* How run() is left, with or without an exception in flight: ArxivAgent.run
\* passes through its finally block, EnhancedArxivAgent.run has none.
leave_without_finally(exc) ==
    /\ error' = exc
    /\ pc' = "exited"

Leave(exc) ==
    /\ error' = exc
    /\ pc' = IF agent = "basic" THEN "finally" ELSE "exited"

\* The positions inside the try block of run().
InTry == {"loop", "after_loop", "deduplicated", "observed", "acting", "report", "raised"}

\* run(): `if not papers: return`, else acting starts
RunObserved ==
    /\ pc = "observed"
    /\ IF papers = <<>>
       THEN Leave("")
       ELSE pc' = "acting" /\ error' = error
    /\ idx' = 1
    /\ UNCHANGED <<envVars, keywords, ci, category_papers, filtered_papers,
                   papers, unique, sc, pdfs, downloaded, figures, requests,
                   writes, replies, prompts, analysis_results, report, files,
                   cleanup_done, cleanup_failed, exit_status>>

\* EnhancedArxivAgent.run: an exception of observing is logged and re-raised
EnhancedRunRaised ==
    /\ agent = "enhanced"
    /\ pc = "raised"
    /\ pc' = "exited"
    /\ UNCHANGED <<envVars, keywords, ci, category_papers, filtered_papers,
                   papers, unique, error, sc, actVars>>

\* ArxivAgent.acting, one pass of `for paper in papers`
ArxivActingPaper ==
    /\ agent = "basic"
    /\ pc = "acting"
    /\ \E reply \in Replies(agent, provider) :
         /\ replies' = Append(replies, reply)
         /\ papers' = [papers EXCEPT ![idx].ai_analysis =
                                         analyze_paper_with_ai(papers[idx], reply)]
    /\ prompts' = Append(prompts, content_to_analyze(papers[idx]))
    /\ idx' = idx + 1
    /\ pc' = IF idx + 1 > Len(papers) THEN "report" ELSE "acting"
    /\ UNCHANGED <<envVars, keywords, ci, category_papers, filtered_papers,
                   unique, error, sc, pdfs, downloaded, figures, requests,
                   writes, analysis_results, report, files, cleanup_done,
                   cleanup_failed, exit_status>>

\* EnhancedArxivAgent.acting, one pass of `for paper in papers`:
\* analysis_result.get(...) raises AttributeError on anything but a dict
EnhancedActingPaper ==
    /\ agent = "enhanced"
    /\ pc = "acting"
    /\ \E reply \in Replies(agent, provider) :
         LET analysis_result == enhanced_ai_analysis(papers[idx], reply)
             results == IF idx = 1 THEN NewAnalysisResults(papers)
                        ELSE analysis_results[1]
         IN  /\ replies' = Append(replies, reply)
             /\ prompts' = Append(prompts, enhanced_prompt_content(papers[idx]))
             /\ IF analysis_result.kind # "dict"
                THEN /\ Leave("AttributeError")
                     /\ analysis_results' = Some(results)
                     /\ UNCHANGED <<papers, idx>>
                ELSE /\ papers' = [papers EXCEPT
                                      ![idx].ai_analysis = Some(analysis_result.analysis),
                                      ![idx].key_insights = Some(analysis_result.insights)]
                     /\ analysis_results' = Some(append_analyzed(results, papers'[idx]))
                     /\ idx' = idx + 1
                     /\ pc' = IF idx + 1 > Len(papers) THEN "report" ELSE "acting"
                     /\ error' = error
    /\ UNCHANGED <<envVars, keywords, ci, category_papers, filtered_papers,
                   unique, sc, pdfs, downloaded, figures, requests, writes,
                   report, files, cleanup_done, cleanup_failed, exit_status>>

\* ArxivAgent.acting: the report is generated and _save_report writes it;
\* a failure to write is logged and re-raised
ArxivActingReport ==
    /\ agent = "basic"
    /\ pc = "report"
    /\ report' = Some(generate_markdown_report(papers))
    /\ \E written \in BOOLEAN :
         IF written
         THEN files' = files \cup {"report"} /\ Leave("")
         ELSE files' = files /\ Leave("OSError")
    /\ UNCHANGED <<envVars, keywords, ci, category_papers, filtered_papers,
                   papers, unique, sc, idx, pdfs, downloaded, figures,
                   requests, writes, replies, prompts, analysis_results,
                   cleanup_done, cleanup_failed, exit_status>>

\* EnhancedArxivAgent.acting: the report is generated and
\* _save_enhanced_output writes the report, then the metadata
EnhancedActingReport ==
    /\ agent = "enhanced"
    /\ pc = "report"
    /\ report' = Some(generate_enhanced_report(papers))
    /\ \E written \in {{}, {"report"}, {"report", "metadata"}} :
         /\ files' = files \cup written
         /\ Leave(IF "metadata" \in written THEN "" ELSE "OSError")
    /\ UNCHANGED <<envVars, keywords, ci, category_papers, filtered_papers,
                   papers, unique, sc, idx, pdfs, downloaded, figures,
                   requests, writes, replies, prompts, analysis_results,
                   cleanup_done, cleanup_failed, exit_status>>

\* The cleanup of the finally block: glob.glob(pdf_dir/*.pdf) and os.remove
\* of each; `kept` are the files still there when os.remove raised (none when
\* it did not). The except clause logs a warning, so the exception in flight
\* stays what it was; nothing but the *.pdf files of pdf_dir is touched.
remove_pdf_files_raising(figs, exc, kept) ==
    [pdfs |-> kept, figures |-> figs, failed |-> kept # {},
     error |-> IF kept # {} THEN "OSError" ELSE exc]

remove_pdf_files_and_images(figs, exc, kept) ==
    [pdfs |-> kept, figures |-> {}, error |-> exc, failed |-> kept # {}]

remove_pdf_files(figs, exc, kept) ==
    [pdfs |-> kept, figures |-> figs, error |-> exc, failed |-> kept # {}]

\* ArxivAgent.run, the finally block: every *.pdf of pdf_dir is removed, up
\* to the first os.remove that raises
ArxivRunFinally ==
    /\ agent = "basic"
    /\ pc = "finally"
    /\ \E kept \in SUBSET pdfs :
         LET c == remove_pdf_files(figures, error, kept)
         IN  /\ pdfs' = c.pdfs
             /\ figures' = c.figures
             /\ error' = c.error
             /\ cleanup_failed' = c.failed
    /\ cleanup_done' = TRUE
    /\ pc' = "exited"
    /\ UNCHANGED <<envVars, keywords, ci, category_papers, filtered_papers,
                   papers, unique, sc, idx, downloaded, requests, writes,
                   replies, prompts, analysis_results, report, files,
                   exit_status>>

\* main() of run.py: 0 when agent.run() returned, 1 when it raised
MainReturn ==
    /\ pc = "exited"
    /\ exit_status' = Some(IF error = "" THEN 0 ELSE 1)
    /\ pc' = "done"
    /\ UNCHANGED <<envVars, keywords, ci, category_papers, filtered_papers,
                   papers, unique, error, sc, idx, pdfs, downloaded, figures,
                   requests, writes, replies, prompts, analysis_results,
                   report, files, cleanup_done, cleanup_failed>>

keyboard_interrupt_past_finally ==
    /\ pc \in {"loop", "after_loop", "deduplicated", "observed", "acting", "report", "raised"}
    /\ error' = "KeyboardInterrupt"
    /\ pc' = "exited"
    /\ UNCHANGED <<envVars, keywords, ci, category_papers, filtered_papers,
                   papers, unique, sc, actVars>>

\* Ctrl-C while the try block of run() executes
KeyboardInterrupt ==
    /\ pc \in InTry
    /\ Leave("KeyboardInterrupt")
    /\ UNCHANGED <<envVars, keywords, ci, category_papers, filtered_papers,
                   papers, unique, sc, actVars>>

\* Ctrl-C inside the enrichment loop of ArxivAgent.observing, after k passes
ArxivEnrichInterrupted ==
    /\ agent = "basic"
    /\ pc = "deduplicated"
    /\ \E k \in 1..Len(unique) :
         LET e == extract_loop(unique, k, CurrentDisk)
         IN  /\ unique' = e.papers \o SubSeq(unique, k + 1, Len(unique))
             /\ papers' = unique'
             /\ Enriched(e.disk)
    /\ Leave("KeyboardInterrupt")
    /\ UNCHANGED <<envVars, keywords, ci, category_papers, filtered_papers,
                   sc, idx, replies, prompts, analysis_results, report,
                   files, cleanup_done, cleanup_failed, exit_status>>

\* feedparser.parse(url) is called without a timeout: a feed that does not
\* answer holds the Run for ever.
ArxivFetchBlocked ==
    /\ agent = "basic"
    /\ pc = "loop"
    /\ ci = feed_fail
    /\ pc' = "blocked"
    /\ UNCHANGED <<envVars, keywords, ci, category_papers, filtered_papers,
                   papers, unique, error, sc, actVars>>

\* requests.post of _custom_analysis is called without a timeout: a backend
\* that does not answer holds the Run for ever.
CustomAnalysisBlocked ==
    /\ agent = "enhanced"
    /\ provider = "custom"
    /\ pc = "acting"
    /\ pc' = "blocked"
    /\ UNCHANGED <<envVars, keywords, ci, category_papers, filtered_papers,
                   papers, unique, error, sc, actVars>>

\* The papers and entries the feeds of a whole Run are drawn from.
PaperV == Paper("Z789v1", <<"g", " ", "t">>, <<"g">>, "v")

PaperW == Paper("Z789v2", <<"g", " ", "t">>, <<"g">>, "w")

MalformedEntry == [title |-> <<"T">>, url |-> "m"]

RunFlats ==
    {<<>>, <<MalformedEntry>>, <<PaperA>>, <<MalformedEntry, PaperA>>,
     <<PaperA, PaperV>>, <<PaperA, MalformedEntry, PaperV>>,
     <<PaperV, PaperW>>}

\* What pdf_dir may hold before the Run: nothing, the PDF of a paper of the
\* feeds, or the PDF of a paper no feed lists.
Caches == {{}, {"X123"}, {"Y456"}}

RunKeywordLists == {<<>>, << <<"T">> >>}

Providers == {"openai", "anthropic", "custom"}

RunInit ==
    /\ agent \in {"basic", "enhanced"}
    /\ \E flat \in RunFlats :
         \E feedOf \in [1..Len(flat) -> 1..NumFeeds] :
            /\ \A i, j \in 1..Len(flat) : i < j => feedOf[i] <= feedOf[j]
            /\ feeds = FeedSplit(flat, feedOf)
    /\ keywords \in RunKeywordLists
    /\ max_papers = MaxCap
    /\ provider \in IF agent = "enhanced" THEN Providers ELSE {"openai"}
    /\ dry_run \in BOOLEAN
    /\ feed_fail \in 0..NumFeeds
    /\ net \in IF agent = "basic"
               THEN {n \in [AllIds -> DownloadOutcomes] : n["Y456"] = "exception"}
               ELSE {OfflineNet}
    /\ cache0 \in IF agent = "basic" THEN Caches ELSE {{}}
    /\ "X123" \in cache0 => net["X123"] = "exception"
    /\ docs \in IF net["X123"] = "ok" \/ "X123" \in cache0
                THEN {[PlainDocs EXCEPT !["X123"] = d] : d \in DocumentNames}
                ELSE {PlainDocs}
    /\ (docs # PlainDocs \/ cache0 # {}) =>
           /\ ~dry_run
           /\ feed_fail = 0
           /\ keywords # <<>>
           /\ net["Z789"] \in {"ok", "exception"}
    /\ Start

RunNext ==
    \/ Next
    \/ RunObserved
    \/ EnhancedRunRaised
    \/ ArxivActingPaper
    \/ EnhancedActingPaper
    \/ ArxivActingReport
    \/ EnhancedActingReport
    \/ ArxivRunFinally
    \/ MainReturn
    \/ KeyboardInterrupt
    \/ ArxivEnrichInterrupted
    \/ ArxivFetchBlocked
    \/ CustomAnalysisBlocked

RunSpec == RunInit /\ [][RunNext]_vars

----------------------------------------------------------------------------
(* Scoring sessions: _calculate_relevance_score applied to one paper, first
   with the configured keyword list, then with one more keyword appended to
   the configuration. *)

Texts == {<<"x">>, <<"T">>, <<"G">>, <<"g", " ", "t">>}

ScorePapers == {Paper("S", t, a, "s") : t \in Texts, a \in Texts}

ScoreInit ==
    /\ agent = "enhanced"
    /\ feeds = [c \in 1..NumFeeds |-> <<>>]
    /\ keywords \in KeywordLists
    /\ max_papers = 1
    /\ provider = "openai"
    /\ dry_run = FALSE
    /\ feed_fail = 0
    /\ net = OfflineNet
    /\ docs = PlainDocs
    /\ cache0 = {}
    /\ pc = "idle"
    /\ ci = 1
    /\ category_papers = <<>>
    /\ filtered_papers = <<>>
    /\ papers = <<>>
    /\ unique = <<>>
    /\ error = ""
    /\ idx = 1
    /\ pdfs = cache0
    /\ downloaded = {}
    /\ figures = {}
    /\ requests = <<>>
    /\ writes = <<>>
    /\ prompts = <<>>
    /\ analysis_results = None
    /\ replies = <<>>
    /\ report = None
    /\ files = {}
    /\ cleanup_done = FALSE
    /\ cleanup_failed = FALSE
    /\ exit_status = None
    /\ \E p \in ScorePapers :
         sc = [pc |-> "start", paper |-> p, base |-> None, term |-> <<>>, ext |-> None,
               filtered |-> NothingFiltered]

\* The paper is scored against the configured keywords, and filtered as
\* the only paper of a fetched list.
ScoreBase ==
    /\ sc.pc = "start"
    /\ sc' = [sc EXCEPT !.pc = "scored",
                        !.base = calculate_relevance_score(sc.paper, keywords),
                        !.filtered = enhanced_filter_papers(<<sc.paper>>, keywords)]
    /\ UNCHANGED <<pipeVars, keywords>>

\* One keyword is appended to the configuration and the paper scored again.
ScoreExtended ==
    /\ sc.pc = "scored"
    /\ \E t \in Terms :
         /\ keywords' = Append(keywords, t)
         /\ sc' = [sc EXCEPT !.pc = "extended", !.term = t,
                             !.ext = calculate_relevance_score(sc.paper, keywords')]
    /\ UNCHANGED pipeVars

ScoreNext == ScoreBase \/ ScoreExtended

ScoreSpec == ScoreInit /\ [][ScoreNext]_vars

----------------------------------------------------------------------------
(* Properties *)

Ids(ps) == {ps[i].arxiv_id : i \in 1..Len(ps)}

\* The positions of ps that hold the first paper of their identifier.
FirstPositions(ps) ==
    {i \in 1..Len(ps) : \A j \in 1..(i - 1) : ps[j].arxiv_id # ps[i].arxiv_id}

\* The k-th smallest element of a set of positions.
KthOf(S, k) == CHOOSE i \in S : Cardinality({j \in S : j < i}) = k - 1

\* C1: the deduplication loop of ArxivAgent.observing leaves exactly one
\* paper per distinct arxiv_id, that paper is the first occurrence of its
\* identifier, and the survivors keep their relative order (the empty list
\* gives the empty list).
C1_DedupFirstOccurrence ==
    (agent = "basic" /\ pc = "deduplicated") =>
        /\ Len(unique) = Cardinality(Ids(papers))
        /\ \A k \in 1..Len(unique) : unique[k] = papers[KthOf(FirstPositions(papers), k)]

\* A Run whose capped list holds PaperA before its duplicate PaperB and a
\* paper of another identifier after them.
C1_Witness ==
    /\ agent = "basic" /\ pc = "deduplicated"
    /\ Len(papers) = 3 /\ Len(unique) = 2
    /\ papers[1] = PaperA /\ papers[2] = PaperB
    /\ unique[1] = PaperA /\ unique[2] = papers[3]

\* C2: the list EnhancedArxivAgent.observing returns holds at most one
\* paper per arxiv_id.
C2_EnhancedNoDuplicateIds ==
    (agent = "enhanced" /\ pc = "observed") =>
        \A i, j \in 1..Len(papers) : i < j => papers[i].arxiv_id # papers[j].arxiv_id

\* The end-to-end example: keywords [graph, transformer], the feeds hold
\* exactly A, B and C, A in the first feed and B in the second, cap >= 2.
RECURSIVE AllFetchedFrom(_)
AllFetchedFrom(c) == IF c > NumFeeds THEN <<>> ELSE feeds[c] \o AllFetchedFrom(c + 1)

AllFetched == AllFetchedFrom(1)

IsExample ==
    /\ keywords = << <<"g">>, <<"T">> >>
    /\ max_papers >= 2
    /\ Len(AllFetched) = 3
    /\ {AllFetched[i] : i \in 1..3} = {PaperA, PaperB, PaperC}
    /\ \E i \in 1..Len(feeds[1]) : feeds[1][i] = PaperA
    /\ \E i \in 1..Len(feeds[2]) : feeds[2][i] = PaperB

\* C3: in the end-to-end example the list observing returns, under either
\* policy, holds exactly the two items A and C.
C3_ExampleYieldsAandC ==
    (IsExample /\ pc = "observed") =>
        /\ Len(papers) = 2
        /\ {papers[i].url : i \in 1..Len(papers)} = {"a", "c"}

IsScore(x) == Len(x) = 2

\* C4: for every paper and every keyword list, the empty one included,
\* _calculate_relevance_score returns a value in [0, 1].
C4_ScoreInUnitRange ==
    (sc.pc = "scored") =>
        /\ IsScore(sc.base)
        /\ 0 <= sc.base[1] /\ sc.base[1] <= sc.base[2]

MatchesTitle(t, paper) == Contains(lower(t), lower(paper.title))
MatchesAbstract(t, paper) == Contains(lower(t), lower(paper.abstract))

\* C5 as stated: appending a keyword that matches the paper (title,
\* abstract or both) to a keyword list never lowers the score the list
\* alone gave.
C5_AnyMatchMonotonic ==
    (sc.pc = "extended" /\ IsScore(sc.base)
       /\ (MatchesTitle(sc.term, sc.paper) \/ MatchesAbstract(sc.term, sc.paper))) =>
        ScoreLeq(sc.base, sc.ext)

\* C5 amended: appending a matching keyword to a non-empty keyword list
\* never lowers the score when the keyword matches the title, or when the
\* score with the list alone is at most AbstractWeight / TitleWeight (0.6).
C5_MatchMonotonicAmended ==
    (sc.pc = "extended" /\ Len(keywords) >= 2
       /\ (MatchesTitle(sc.term, sc.paper) \/ MatchesAbstract(sc.term, sc.paper))
       /\ (MatchesTitle(sc.term, sc.paper)
             \/ sc.base[1] * TitleWeight <= AbstractWeight * sc.base[2])) =>
        ScoreLeq(sc.base, sc.ext)

\* A keyword found in the abstract only, appended to a list under which
\* the paper scored above 0 and at most 0.6: the score does not drop.
C5_Witness ==
    /\ sc.pc = "extended" /\ Len(keywords) >= 2
    /\ ~MatchesTitle(sc.term, sc.paper) /\ MatchesAbstract(sc.term, sc.paper)
    /\ sc.base[1] > 0
    /\ sc.base[1] * TitleWeight <= AbstractWeight * sc.base[2]
    /\ ScoreLeq(sc.base, sc.ext)

\* C6: appending a keyword that matches the title to a non-empty keyword
\* list never lowers the score.
C6_TitleMatchMonotonic ==
    (sc.pc = "extended" /\ Len(keywords) >= 2 /\ MatchesTitle(sc.term, sc.paper)) =>
        ScoreLeq(sc.base, sc.ext)

\* A title match that raises a score, and the list was not empty.
C6_Witness ==
    /\ sc.pc = "extended" /\ Len(keywords) >= 2
    /\ MatchesTitle(sc.term, sc.paper)
    /\ sc.base[1] > 0
    /\ ScoreLess(sc.base, sc.ext)

\* The papers of ps whose sort key equals k, in the order of ps.
WithScore(ps, k) == SelectSeq(ps, LAMBDA p : ScoreEq(sort_key(p), k))

\* Every passing paper of every feed, scored, in feed order then position.
RECURSIVE AllPassingFrom(_)
AllPassingFrom(c) ==
    IF c > NumFeeds THEN <<>>
    ELSE enhanced_filter_papers(feeds[c], keywords).ret \o AllPassingFrom(c + 1)

AllPassing == AllPassingFrom(1)

\* The list as it was when the sort began: the first max_papers passing papers.
BeforeSort == Take(AllPassing, max_papers)

\* C7: the list EnhancedArxivAgent.observing returns is in non-increasing
\* score order, and papers of equal score are in the order they had before
\* the sort (feed order, then position in the feed).
C7_SortedStable ==
    (agent = "enhanced" /\ pc = "observed") =>
        /\ \A i \in 1..(Len(papers) - 1) :
              ScoreLeq(sort_key(papers[i + 1]), sort_key(papers[i]))
        /\ Len(papers) = Len(BeforeSort)
        /\ \A i \in 1..Len(papers) :
              WithScore(papers, sort_key(papers[i])) = WithScore(BeforeSort, sort_key(papers[i]))

\* The sort moved a paper of the second feed to the front, and two papers
\* of equal score follow it.
C7_Witness ==
    /\ agent = "enhanced" /\ pc = "observed"
    /\ Len(papers) = 3
    /\ papers # BeforeSort
    /\ ScoreLess(sort_key(papers[2]), sort_key(papers[1]))
    /\ ScoreEq(sort_key(papers[2]), sort_key(papers[3]))
    /\ papers[2].url # papers[3].url

\* C8: the list EnhancedArxivAgent.observing returns is the first
\* max_papers papers of the stably sorted list of all passing papers.
C8_CapAfterSort ==
    (agent = "enhanced" /\ pc = "observed") =>
        papers = Take(sort_by_relevance(AllPassing), max_papers)

\* Every passing paper of every feed under the binary policy, in feed order.
RECURSIVE AllMatchingFrom(_)
AllMatchingFrom(c) ==
    IF c > NumFeeds THEN <<>>
    ELSE filter_papers_by_keywords(feeds[c], keywords) \o AllMatchingFrom(c + 1)

\* C9: the list ArxivAgent.observing returns is the first max_papers papers
\* of the deduplicated sequence of passing papers.
C9_DedupBeforeCap ==
    (agent = "basic" /\ pc = "observed") =>
        papers = Take(deduplicate(AllMatchingFrom(1)), max_papers)

\* Some configured keyword, lower-cased, is a substring of the lower-cased
\* "title abstract" text.
PassesBinary(p) ==
    \E k \in 1..Len(keywords) :
        Contains(lower(keywords[k]), lower(p.title \o <<" ">> \o p.abstract))

\* C10: _filter_papers_by_keywords returns exactly the papers that pass,
\* each once, in input order, unmodified.
C10_BinaryFilterExact ==
    (agent = "basic" /\ pc # "idle") =>
        /\ filtered_papers = SelectSeq(category_papers, PassesBinary)
        /\ \A i \in 1..Len(filtered_papers) : filtered_papers[i].relevance_score = None
        /\ (pc # "loop" \/ ci > 1) => \E c \in 1..NumFeeds : category_papers = feeds[c]

\* A feed of three papers: one fails, one passes through an upper-case
\* abstract, one is matched by both configured keywords and is kept once.
C10_Witness ==
    /\ agent = "basic" /\ pc # "loop"
    /\ keywords = << <<"g">>, <<"g">> >>
    /\ category_papers = <<PaperA, PaperC, PaperD>>
    /\ filtered_papers = <<PaperC, PaperD>>

----------------------------------------------------------------------------
(* Claims about the Run: enrichment, analysis, persistence, cleanup *)

AfterObserving == {"observed", "acting", "report", "finally", "exited", "done"}

\* No PDF of the paper is in the cache and the download does not store one.
RetrievalFails(paper) ==
    /\ clean_id(paper.arxiv_id) \notin cache0
    /\ net[clean_id(paper.arxiv_id)] # "ok"

\* C11: when the retrieval of a paper's PDF fails (the request raises, the
\* status is not 200, or the cache file cannot be written), the enrichment of
\* ArxivAgent returns normally and leaves full_text, main_figure_path and
\* main_table_path of that paper unset; the paper is still analysed and has
\* its section in the report.
C11_EnrichmentDegrades ==
    (agent = "basic" /\ pc \in AfterObserving) =>
        /\ pc = "observed" => error = ""
        /\ \A i \in 1..Len(papers) :
             RetrievalFails(papers[i]) =>
                /\ papers[i].full_text = None
                /\ papers[i].main_figure_path = None
                /\ papers[i].main_table_path = None
                /\ report # None =>
                      /\ i <= Len(report[1].sections)
                      /\ report[1].sections[i].arxiv_id = papers[i].arxiv_id
                      /\ papers[i].ai_analysis # None
                      /\ report[1].sections[i].ai_analysis = papers[i].ai_analysis

C11_Witness ==
    /\ agent = "basic"
    /\ pc = "done"
    /\ Len(papers) = 2
    /\ RetrievalFails(papers[1])
    /\ net[clean_id(papers[1].arxiv_id)] = "unwritable"
    /\ net[clean_id(papers[2].arxiv_id)] = "ok"
    /\ papers[1].full_text = None
    /\ papers[2].full_text # None
    /\ report # None
    /\ Len(report[1].sections) = 2
    /\ "report" \in files

\* Acting has made every pass of its loop.
ActingLoopDone == pc \in {"report", "finally", "exited", "done"} /\ idx > Len(papers)

\* C12: whichever calls of the AI backend raise, acting analyses every paper:
\* a paper whose call raised carries the placeholder analysis (and, in the
\* enhanced agent, an empty insight list), every other paper carries the
\* analysis of its own answer, no raising call ends the loop, and the report
\* has one section per paper, in the papers' order.
C12_AnalysisFailureIsolated ==
    /\ \A i \in 1..Len(replies) :
         /\ replies[i].kind = "raise" =>
               /\ i < idx
               /\ papers[i].ai_analysis = Some(Placeholder)
               /\ agent = "enhanced" => papers[i].key_insights = Some(<<>>)
         /\ replies[i].kind \in {"text", "json_record"} =>
               /\ i < idx
               /\ papers[i].ai_analysis = Some(replies[i].analysis)
    /\ (pc \in {"acting", "report"} \/ ActingLoopDone) => Len(replies) = idx - 1
    /\ report # None =>
          /\ Len(report[1].sections) = Len(papers)
          /\ Len(replies) = Len(papers)
          /\ \A i \in 1..Len(papers) :
               /\ report[1].sections[i].number = i
               /\ report[1].sections[i].arxiv_id = papers[i].arxiv_id
               /\ report[1].sections[i].ai_analysis = papers[i].ai_analysis
          /\ agent = "basic" => Ids(report[1].sections) = Ids(unique)

C12_Witness ==
    /\ pc = "done"
    /\ Len(papers) = 2
    /\ Len(replies) = 2
    /\ replies[1].kind = "raise"
    /\ replies[2].kind = "text"
    /\ papers[1].ai_analysis = Some(Placeholder)
    /\ papers[2].ai_analysis = Some(TextFew)
    /\ report # None
    /\ Len(report[1].sections) = 2

\* C13: an answer of the backend that is malformed, content that parses as
\* JSON but is not a record included, does not abort the Run: the paper gets
\* the placeholder analysis and an empty insight list.
C13_MalformedResponseTolerated ==
    \A i \in 1..Len(replies) :
        replies[i].kind = "json_other" =>
            /\ error # "AttributeError"
            /\ i < idx
            /\ papers[i].ai_analysis = Some(Placeholder)
            /\ papers[i].key_insights = Some(<<>>)

\* C14: after acting in the enhanced agent, the key_insights of every paper
\* has at most 5 entries, from structured output or from the heuristic scan.
C14_InsightsBounded ==
    agent = "enhanced" =>
        \A i \in 1..Len(papers) :
            papers[i].key_insights # None =>
                Len(papers[i].key_insights[1]) <= InsightCap

\* _save_report / _save_enhanced_output could not write the output.
PersistFailed ==
    /\ report # None
    /\ IF agent = "basic" THEN "report" \notin files ELSE "metadata" \notin files

\* C15: when writing the report (or the enhanced metadata) fails, run()
\* raises and run.py returns a non-zero status; in ArxivAgent the PDF cleanup
\* has been executed before run() exits.
C15_PersistenceFailureSurfaced ==
    PersistFailed =>
        /\ error = "OSError"
        /\ pc \in {"finally", "exited", "done"}
        /\ (agent = "basic" /\ pc \in {"exited", "done"}) =>
              cleanup_done /\ (~cleanup_failed => pdfs = {})
        /\ pc = "done" => exit_status = Some(1)

C15_Witness ==
    /\ agent = "basic"
    /\ pc = "done"
    /\ PersistFailed
    /\ downloaded # {}
    /\ cleanup_done
    /\ pdfs = {}
    /\ exit_status = Some(1)

Persisted ==
    IF agent = "basic" THEN "report" \in files
    ELSE {"report", "metadata"} \subseteq files

\* C17: a Run ends in exactly one of two outcomes: the report has been
\* persisted and run() returned, or run() raised because persisting failed.
\* Stated for the Runs that returned or raised on persisting: a Run that
\* returned has persisted its report, a Run that failed to persist has not.
C17_TwoOutcomes ==
    (pc = "done" /\ error \in {"", "OSError"}) =>
        \/ Persisted /\ error = ""
        \/ ~Persisted /\ PersistFailed /\ error = "OSError"

\* C18: every external call is bounded by a timeout, so the Run always has
\* a next step until main() has returned.
C18_RunNeverBlocked == pc = "done" \/ ENABLED RunNext

WellFormed(entry) == {"arxiv_id", "title", "abstract", "url"} \subseteq DOMAIN entry

\* What the feed of category c contributes: nothing when fetching it raises,
\* else its well-formed entries, in order.
Contribution(c) ==
    IF c = feed_fail THEN <<>> ELSE SelectSeq(feeds[c], WellFormed)

RECURSIVE ContributionsFrom(_)
ContributionsFrom(c) ==
    IF c > NumFeeds THEN <<>>
    ELSE SelectSeq(Contribution(c), PassesBinary) \o ContributionsFrom(c + 1)

\* C19: in ArxivAgent.observing a feed whose fetch raises contributes no
\* paper and an entry that cannot be normalised is dropped alone: every pass
\* of the loop yields the well-formed entries of its feed in order, the loop
\* goes on to the next feed, and the accumulated list is made of what every
\* feed contributes.
C19_FeedAndItemIsolation ==
    [][(agent = "basic" /\ pc = "loop" /\ pc' \notin {"finally", "blocked"}) =>
          /\ category_papers' = Contribution(ci)
          /\ filtered_papers' = SelectSeq(Contribution(ci), PassesBinary)
          /\ error' = ""
          /\ pc' \in {"loop", "after_loop"}
          /\ pc' = "loop" => ci' = ci + 1
          /\ pc' = "after_loop" =>
                papers' = Take(ContributionsFrom(1), max_papers)]_vars

C19_Witness ==
    /\ agent = "basic"
    /\ pc = "after_loop"
    /\ feed_fail = 1
    /\ feeds[1] = <<PaperA>>
    /\ feeds[2] = <<MalformedEntry, PaperV>>
    /\ papers = <<PaperV>>

\* C20: started with --dry-run, run.py writes no report and no metadata.
C20_DryRunWritesNothing == dry_run => files = {}

----------------------------------------------------------------------------
(* Claims about the weighted policy, enrichment steps, the cache, cleanup *)

TitleHits(paper, kws) ==
    Cardinality({k \in 1..Len(kws) : MatchesTitle(kws[k], paper)})

AbstractHits(paper, kws) ==
    Cardinality({k \in 1..Len(kws) : MatchesAbstract(kws[k], paper)})

\* min((0.5 * T + 0.3 * A) / (0.5 * n), 1), in tenths
WeightedScore(paper, kws) ==
    LET total == 5 * TitleHits(paper, kws) + 3 * AbstractHits(paper, kws)
    IN  <<Min(total, 5 * Len(kws)), 5 * Len(kws)>>

\* C21: for a non-empty list of n keywords the score of a paper is
\* min((0.5 * T + 0.3 * A) / (0.5 * n), 1), T and A the numbers of keywords
\* found case-insensitively in the title and in the abstract; the filter
\* keeps the paper, with relevance_score set to that score, exactly when
\* the score is strictly greater than 0.3.
C21_WeightedScoreAndPassRule ==
    (sc.pc = "scored" /\ keywords # <<>>) =>
        LET score == WeightedScore(sc.paper, keywords)
        IN  /\ sc.base = score
            /\ sc.filtered.exc = ""
            /\ sc.filtered.ret =
                  IF score[1] * 10 > 3 * score[2]
                  THEN <<[sc.paper EXCEPT !.relevance_score = score]>>
                  ELSE <<>>

\* A paper that scores exactly 0.3 (one of two keywords, in the abstract
\* only) is dropped.
C21_Witness ==
    /\ sc.pc = "scored"
    /\ Len(keywords) = 2
    /\ TitleHits(sc.paper, keywords) = 0
    /\ AbstractHits(sc.paper, keywords) = 1
    /\ sc.base = <<3, 10>>
    /\ sc.filtered.ret = <<>>

----------------------------------------------------------------------------
(* Claims about enrichment, retrieval, analysis input, cleanup and the report *)

\* figure_dir holds a file of that path.
HasFile(path) == \E f \in figures : f.path = path

\* The PDF of the paper.
DocOf(paper) == TheDocument(docs[clean_id(paper.arxiv_id)])

\* C22: the steps of enrichment are independent: when the figure image of a
\* paper has been written to figure_dir and the table step then raises, the
\* paper still carries main_figure_path.
C22_FigureSurvivesTableFailure ==
    (agent = "basic" /\ pc \in AfterObserving) =>
        \A i \in 1..Len(papers) :
            (HasFile(FigurePath(papers[i])) /\ DocOf(papers[i]).fails = "table") =>
                papers[i].main_figure_path = Some(FigurePath(papers[i]))

\* How often id occurs in the log.
Count(log, id) == Cardinality({i \in 1..Len(log) : log[i] = id})

\* C23: retrieval is write-once: a PDF that is in the cache is neither
\* requested nor written again, so a file the cache held before the Run is
\* never requested or written, a file the Run stores is requested and written
\* once however many papers resolve to it, and identifiers that differ only in
\* their version suffix resolve to the same file.
C23_WriteOnceRetrieval ==
    agent = "basic" =>
        /\ \A id \in AllIds :
             /\ Count(writes, id) <= 1
             /\ id \in cache0 => Count(requests, id) = 0 /\ Count(writes, id) = 0
             /\ net[id] = "ok" => Count(requests, id) <= 1
             /\ Count(writes, id) = 1 => id \in downloaded
        /\ \A i, j \in 1..Len(papers) :
             (papers[i].full_text # None /\ papers[j].full_text # None
                 /\ strip_version(IdChars(papers[i].arxiv_id))
                        = strip_version(IdChars(papers[j].arxiv_id))) =>
                /\ clean_id(papers[i].arxiv_id) = clean_id(papers[j].arxiv_id)
                /\ Count(writes, clean_id(papers[i].arxiv_id)) =
                      IF clean_id(papers[j].arxiv_id) \in cache0 THEN 0 ELSE 1

C23_Witness ==
    /\ agent = "basic"
    /\ pc = "observed"
    /\ Len(papers) = 2
    /\ papers[1].arxiv_id = "Z789v1"
    /\ papers[2].arxiv_id = "Z789v2"
    /\ papers[1].full_text # None
    /\ papers[2].full_text # None
    /\ requests = <<"Z789">>
    /\ writes = <<"Z789">>
    /\ pdfs = {"Z789"}

\* C24: what is submitted for analysis is the paper's full text when it has
\* one, and its abstract otherwise (no enrichment, failed enrichment, or an
\* empty text; the papers of the enhanced agent have no full text); one
\* content per call of the backend, and choosing it raises nothing.
C24_AnalysisInputSelection ==
    /\ Len(prompts) = Len(replies)
    /\ Len(prompts) <= Len(papers)
    /\ \A k \in 1..Len(prompts) :
         /\ prompts[k] \in {papers[k].abstract} \cup
                           {papers[k].full_text[j] : j \in 1..Len(papers[k].full_text)}
         /\ IF papers[k].full_text \in {None, Some(<<>>)}
            THEN prompts[k] = papers[k].abstract
            ELSE prompts[k] = papers[k].full_text[1]
    /\ (agent = "basic" /\ pc = "acting") => error = ""

C24_Witness ==
    /\ agent = "basic"
    /\ pc = "done"
    /\ Len(prompts) = 2
    /\ Len(papers) = 2
    /\ papers[1].full_text = Some(<<>>)
    /\ prompts[1] = papers[1].abstract
    /\ papers[2].full_text # None
    /\ prompts[2] = papers[2].full_text[1]
    /\ prompts[2] # papers[2].abstract

\* C25: a failure of the cleanup is not fatal and preserves the outcome: the
\* finally block of ArxivAgent.run always completes and leaves the exception
\* in flight (or its absence) as it found it, so a Run that persisted its
\* report returns normally with status 0 although os.remove raised, and a Run
\* that failed propagates the exception it failed with.
C25_CleanupFailureNonFatal ==
    /\ [][pc = "finally" =>
             (pc' = "exited" /\ cleanup_done' /\ error' = error
                 /\ report' = report /\ files' = files)]_vars
    /\ []((agent = "basic" /\ cleanup_failed) =>
             /\ pc \in {"exited", "done"}
             /\ "report" \in files => error = ""
             /\ pc = "done" => exit_status = Some(IF error = "" THEN 0 ELSE 1))

C25_Witness ==
    /\ agent = "basic"
    /\ pc = "done"
    /\ cleanup_failed
    /\ pdfs # {}
    /\ "report" \in files
    /\ error = ""
    /\ exit_status = Some(0)

\* The identifiers of a list of papers, sections or metadata entries, in order.
IdSeq(s) == [i \in 1..Len(s) |-> s[i].arxiv_id]

\* C26: the report has exactly one section per paper of the list acting was
\* given, numbered 1..n in the order of the list, and its overview counts n;
\* the metadata of the enhanced agent, once every paper is analysed, lists
\* the same n papers in the same order with total_papers = n; the passes of
\* acting and the building of the report keep the list's papers and order.
C26_ReportMatchesList ==
    /\ [](report # None =>
             /\ Len(report[1].sections) = Len(papers)
             /\ report[1].total_papers = Len(papers)
             /\ IdSeq(report[1].sections) = IdSeq(papers)
             /\ \A i \in 1..Len(papers) : report[1].sections[i].number = i
             /\ agent = "enhanced" =>
                   /\ analysis_results # None
                   /\ analysis_results[1].total_papers = Len(papers)
                   /\ Len(analysis_results[1].papers_analyzed) = Len(papers)
                   /\ IdSeq(analysis_results[1].papers_analyzed) = IdSeq(papers)
                   /\ \A i \in 1..Len(papers) :
                        /\ analysis_results[1].papers_analyzed[i].ai_analysis
                              = papers[i].ai_analysis
                        /\ analysis_results[1].papers_analyzed[i].title
                              = papers[i].title)
    /\ [][(pc \in {"acting", "report"}) => (IdSeq(papers') = IdSeq(papers))]_vars
    /\ [][(pc = "report") => (papers' = papers)]_vars

C26_Witness ==
    /\ agent = "enhanced"
    /\ pc = "done"
    /\ report # None
    /\ Len(papers) = 2
    /\ Len(report[1].sections) = 2
    /\ report[1].sections[2].number = 2
    /\ Len(analysis_results[1].papers_analyzed) = 2
    /\ "metadata" \in files

\* The files of figure_dir the papers of the list point to.
ImagePaths(ps) ==
    UNION {{ps[i].main_figure_path[j] : j \in 1..Len(ps[i].main_figure_path)}
               \cup {ps[i].main_table_path[j] : j \in 1..Len(ps[i].main_table_path)} :
           i \in 1..Len(ps)}

\* C27: the cleanup removes *.pdf files of pdf_dir and nothing else: the
\* report and the output files, the image files of figure_dir and the papers
\* with their full_text, main_figure_path and main_table_path are as they
\* were before it, and the image files the papers point to are still there
\* when the Run has exited.
C27_CleanupRemovesOnlyPdfs ==
    /\ [][(pc = "finally") =>
             (/\ pdfs' \subseteq pdfs
              /\ figures' = figures
              /\ report' = report
              /\ files' = files
              /\ papers' = papers)]_vars
    /\ []((agent = "basic" /\ pc \in {"exited", "done"}) =>
             \A path \in ImagePaths(papers) : HasFile(path))

C27_Witness ==
    /\ agent = "basic"
    /\ pc = "done"
    /\ cleanup_done
    /\ pdfs = {}
    /\ downloaded # {}
    /\ "report" \in files
    /\ Len(papers) = 2
    /\ papers[1].main_figure_path # None
    /\ papers[1].main_table_path # None
    /\ papers[1].full_text # None
    /\ HasFile(FigurePath(papers[1]))
    /\ HasFile(TablePath(papers[1]))
    /\ Cardinality(figures) = 4

\* C28: the cleanup deletes only the PDFs this Run has downloaded: a PDF
\* that was in the cache before the Run, reused by it or not, is still there
\* when the Run has returned.
C28_CleanupSparesEarlierCache ==
    (agent = "basic" /\ pc \in {"exited", "done"} /\ error = "") =>
        cache0 \subseteq pdfs

====
